---- MODULE Spec2Model ----
(***************************************************************************)
(* Framework / Device / Backend / Error composition of collenchyma.        *)
(*                                                                         *)
(* One Framework instance of a kind F (Native, OpenCL or Cuda) is created, *)
(* Backends are built from it through BackendConfig and Backend::new, and  *)
(* the accessors of the Framework and of its Backends are called in any    *)
(* order.  The native driver is the environment: it decides what hardware  *)
(* is visible and whether a context creation succeeds or with which status *)
(* it fails.  Every operation leaves in `last` what it was called with,    *)
(* what it returned and which native calls it issued.                      *)
(***************************************************************************)
EXTENDS Naturals, Sequences, FiniteSets

VARIABLES
    kind,        \* the concrete framework type F of this run
    fault,       \* the status the native driver fails with in this run
    driver,      \* the hardware list the native driver reports at the moment
    framework,   \* the Framework instance, NoFramework before new()
    discovered,  \* what the driver reported to Framework::new (history)
    compiled,    \* native compile_binary calls issued so far (history)
    backends,    \* the Backends that are Ready, in construction order
    last         \* the last operation: its inputs, its result, its native calls

vars == <<kind, fault, driver, framework, discovered, compiled, backends, last>>

(***************************** bounds **************************************)
MaxBackends == 2
MaxMsgLen == 2
MaxCalls == 2

(***************************** data ****************************************)
\* impl IBackend for Backend<Native> / Backend<OpenCL> / Backend<Cuda>
Kinds == {"Native", "OpenCL", "Cuda"}

\* Hardware units a driver can report
Units == {"hw0", "hw1", "hw2"}

\* the lists a driver reports
Visible == {<<"hw0">>, <<"hw0", "hw1">>}

\* the characters of a native message: a plain one, a double quote, a backslash
Chars == {"d", "\"", "\\"}

Messages == UNION {[1..n -> Chars] : n \in 0..MaxMsgLen}

\* the variants of the native status enumeration
Variants ==
    {"InvalidPlatform", "InvalidDevice", "InvalidDeviceType", "InvalidContext",
     "InvalidMemObject", "InvalidCommandQueue", "InvalidEventWaitList",
     "InvalidValue", "InvalidProperty", "InvalidOperation", "InvalidBufferSize",
     "InvalidHostPtr", "DeviceNotFound", "DeviceNotAvailable",
     "MemObjectAllocationFailure", "MisalignedSubBufferOffset",
     "ExecStatusErrorForEventsInWaitList", "OutOfResources", "OutOfHostMemory",
     "Other"}

\* a native status error: Error::<Variant>(String)
Statuses == [variant : Variants, msg : Messages]

\* the native call returned without a status error
Success == [variant |-> "Success", msg |-> <<>>]

\* the statuses the driver fails with in the runs of the construction protocol
CoreFaults ==
    {[variant |-> "DeviceNotFound", msg |-> <<"d">>],
     [variant |-> "OutOfResources", msg |-> <<>>]}

\* the Hardware vectors a caller passes: Vec<F::H>
Subsets ==
    {<<>>, <<"hw0">>, <<"hw1">>, <<"hw2">>, <<"hw0", "hw1">>, <<"hw1", "hw2">>}

NoBinary == [kind |-> "None", handle |-> 0]
NoFramework == [kind |-> "None", hardwares |-> <<>>, binary |-> NoBinary]
NoValue == [tag |-> "NoValue"]
NoError == [tag |-> "NoError"]

Ok(v) == [ok |-> TRUE, val |-> v, err |-> NoError]
Err(e) == [ok |-> FALSE, val |-> NoValue, err |-> e]

Range(s) == {s[i] : i \in 1..Len(s)}

Count(s, x) == Cardinality({i \in 1..Len(s) : s[i] = x})

Min(a, b) == IF a < b THEN a ELSE b

(***************************** text *****************************************)
\* A text is a sequence of tokens: single characters, and the literal pieces
\* of a format string.

\* char::escape_debug as used by <str as Debug>::fmt
escape_debug(c) ==
    IF c = "\"" THEN <<"\\", "\"">>
    ELSE IF c = "\\" THEN <<"\\", "\\">>
    ELSE <<c>>

RECURSIVE escape_all(_)
escape_all(m) ==
    IF m = <<>> THEN <<>> ELSE escape_debug(Head(m)) \o escape_all(Tail(m))

\* "{:?}" of a String: the escaped text between double quotes
fmt_debug(m) == <<"\"">> \o escape_all(m) \o <<"\"">>

\* "{}" of a String: the text itself
fmt_display(m) == m

(***************************** native status error *************************)
\* impl fmt::Display for Error (every arm: write!(f, "{:?}", err))
Display_native(e) == fmt_debug(e.msg)

\* error::Error::description (every arm: err)
description_native(e) == e.msg

\* error::Error::cause (every arm: None)
cause_native(e) == NoError

(***************************** framework error *****************************)
\* enum Error { OpenCL(OpenCLError) } built by From<OpenCLError>
From_OpenCLError(err) == [tag |-> "OpenCL", err |-> err]

\* write!(f, "OpenCL error: {}", err)
Display_framework(e) == <<"OpenCL", " error: ">> \o Display_native(e.err)

\* a description taken from the Display text of the wrapped error
description_framework_display(e) == Display_native(e.err)

\* Error::OpenCL(ref err) => err.description()
description_framework(e) == description_native(e.err)

\* Error::OpenCL(ref err) => Some(err)
cause_framework(e) == e.err

(***************************** crate-wide error ****************************)
\* impl From<Error> for ::error::Error: ::error::Error::Framework(err)
From_Error(err) == [tag |-> "Framework", err |-> err]

\* the error of a rejected Hardware subset
ConfigurationError == [tag |-> "ConfigurationError", err |-> NoError]

\* Display of the crate-wide error: the framework error's own text
Display_crate(e) ==
    IF e.tag = "Framework" /\ e.err.tag = "OpenCL"
    THEN Display_framework(e.err)
    ELSE <<e.tag>>

\* the error at the bottom of a chain of wrappers
RECURSIVE Root(_)
Root(e) == IF e.tag \in {"Framework"} THEN Root(e.err) ELSE e

(***************************** Framework ***********************************)
\* IFramework::new: enumerates the hardware once and compiles the binary
Framework_new(k, visible, handle) ==
    [val |-> [kind |-> k, hardwares |-> visible,
              binary |-> [kind |-> k, handle |-> handle]],
     native |-> <<"enumerate_hardware", "compile_binary">>]

\* IFramework::load_hardwares
load_hardwares(visible, outcome) ==
    [res |-> IF outcome = Success THEN Ok(visible)
             ELSE Err(From_OpenCLError(outcome)),
     native |-> <<"enumerate_hardware">>]

\* IFramework::hardwares: the cached list
hardwares(fw) == [val |-> fw.hardwares, native |-> <<>>]

\* IFramework::binary: a clone of the compiled unit
binary(fw) == [val |-> fw.binary, native |-> <<>>]

\* IFramework::new_device
new_device(fw, subset, outcome) ==
    IF subset = <<>> \/ ~(Range(subset) \subseteq Range(fw.hardwares))
    THEN [res |-> Err(ConfigurationError), native |-> <<>>]
    ELSE [res |-> IF outcome = Success
                  THEN Ok([kind |-> fw.kind, hardwares |-> subset])
                  ELSE Err(From_OpenCLError(outcome)),
          native |-> <<"create_device">>]

(***************************** Backend *************************************)
\* a BackendConfig that takes all the hardware of the framework, as the
\* module's example does, whatever the caller chose
BackendConfig_new_all(fw, subset) == [framework |-> fw, hardwares |-> fw.hardwares]

\* BackendConfig::new: framework.clone() paired with the hardwares
BackendConfig_new(fw, subset) == [framework |-> fw, hardwares |-> subset]

\* a Backend::new that drops the failure of new_device and binds the
\* hardwares of the configuration all the same
Backend_new_unchecked(config, outcome) ==
    LET d == new_device(config.framework, config.hardwares, outcome)
    IN  [res |-> Ok([framework |-> config.framework,
                     device |-> [kind |-> config.framework.kind,
                                 hardwares |-> config.hardwares]]),
         native |-> <<"new_device">> \o d.native]

\* a Backend::new that asks for the device a second time when the first
\* call fails
Backend_new_retry(config, outcome) ==
    LET d == new_device(config.framework, config.hardwares, outcome)
        d2 == new_device(config.framework, config.hardwares, outcome)
    IN  IF d.res.ok
        THEN [res |-> Ok([framework |-> config.framework, device |-> d.res.val]),
              native |-> <<"new_device">> \o d.native]
        ELSE [res |-> IF d2.res.ok
                      THEN Ok([framework |-> config.framework, device |-> d2.res.val])
                      ELSE Err(From_Error(d2.res.err)),
              native |-> <<"new_device">> \o d.native \o <<"new_device">> \o d2.native]

\* Backend::new: try!(config.framework.new_device(config.hardwares))
Backend_new(config, outcome) ==
    LET d == new_device(config.framework, config.hardwares, outcome)
    IN  [res |-> IF d.res.ok
                 THEN Ok([framework |-> config.framework, device |-> d.res.val])
                 ELSE Err(From_Error(d.res.err)),
         native |-> <<"new_device">> \o d.native]

\* a Backend::hardwares that asks the driver again
Backend_hardwares_reload(b) ==
    [val |-> driver, native |-> <<"enumerate_hardware">>]

\* Backend::hardwares: self.framework.hardwares()
Backend_hardwares(b) == hardwares(b.framework)

\* Backend::framework: self.framework.clone()
Backend_framework(b) == [val |-> b.framework, native |-> <<>>]

\* a Backend::device that creates the context anew on every call
Backend_device_recreate(b) == [val |-> b.device, native |-> <<"create_device">>]

\* Backend::device: &self.device
Backend_device(b) == [val |-> b.device, native |-> <<>>]

\* a Backend::binary that compiles the unit anew on every call
Backend_binary_recompile(b) ==
    [val |-> [kind |-> b.framework.kind, handle |-> b.framework.binary.handle + 1],
     native |-> <<"compile_binary">>]

\* Backend::binary: self.framework().binary().clone()
Backend_binary(b) ==
    LET f == Backend_framework(b)
        r == binary(f.val)
    IN  [val |-> r.val, native |-> f.native \o r.native]

\* impl IBlas<f32> for Backend<OpenCL>, IBlas<f32> and IBlas<f64> for Backend<Native>
IBlasKinds == {"OpenCL", "Native"}

\* IBlas::binary: self.binary()
IBlas_binary(b) == Backend_binary(b)

\* IBlas::device: self.device()
IBlas_device(b) == Backend_device(b)

(***************************** state machine *******************************)
NoLast ==
    [op |-> "none", sub |-> <<>>, idx |-> 0, status |-> Success,
     res |-> Ok(NoValue), native |-> <<>>]

Called(op, sub, idx, status, res, native) ==
    [op |-> op, sub |-> sub, idx |-> idx, status |-> status,
     res |-> res, native |-> native]

\* the compile_binary calls of a trace added to the calls so far
Account(native) == Min(compiled + Count(native, "compile_binary"), MaxCalls)

Start ==
    /\ kind \in Kinds
    /\ driver \in Visible
    /\ framework = NoFramework
    /\ discovered = <<>>
    /\ compiled = 0
    /\ backends = <<>>
    /\ last = NoLast

Init == Start /\ fault \in CoreFaults

InitErr == Start /\ fault \in Statuses

\* the native driver sees hardware come and go
Hotplug ==
    /\ \E v \in Visible : v # driver /\ driver' = v
    /\ UNCHANGED <<kind, fault, framework, discovered, compiled, backends, last>>

\* let framework = F::new()
FrameworkNew ==
    /\ framework = NoFramework
    /\ LET r == Framework_new(kind, driver, compiled + 1)
       IN  /\ framework' = r.val
           /\ discovered' = driver
           /\ compiled' = Account(r.native)
           /\ last' = Called("new", <<>>, 0, Success, Ok(NoValue), r.native)
    /\ UNCHANGED <<kind, fault, driver, backends>>

\* F::load_hardwares()
LoadHardwares ==
    /\ \E outcome \in {Success, fault} :
         LET r == load_hardwares(driver, outcome)
         IN  /\ last' = Called("load_hardwares", <<>>, 0, outcome, r.res, r.native)
             /\ compiled' = Account(r.native)
    /\ UNCHANGED <<kind, fault, driver, framework, discovered, backends>>

\* framework.hardwares()
Hardwares ==
    /\ framework # NoFramework
    /\ LET r == hardwares(framework)
       IN  /\ last' = Called("hardwares", <<>>, 0, Success, Ok(r.val), r.native)
           /\ compiled' = Account(r.native)
    /\ UNCHANGED <<kind, fault, driver, framework, discovered, backends>>

\* framework.binary()
Binary ==
    /\ framework # NoFramework
    /\ LET r == binary(framework)
       IN  /\ last' = Called("binary", <<>>, 0, Success, Ok(r.val), r.native)
           /\ compiled' = Account(r.native)
    /\ UNCHANGED <<kind, fault, driver, framework, discovered, backends>>

\* Backend::new(BackendConfig::new(framework, subset))
BackendNew ==
    /\ framework # NoFramework
    /\ \E subset \in Subsets, outcome \in {Success, fault} :
         LET r == Backend_new(BackendConfig_new(framework, subset), outcome)
             asked == Count(r.native, "create_device") > 0
         IN  /\ asked \/ outcome = Success
             /\ r.res.ok => Len(backends) < MaxBackends
             /\ backends' = IF r.res.ok THEN Append(backends, r.res.val) ELSE backends
             /\ last' = Called("Backend_new", subset, 0, outcome, r.res, r.native)
             /\ compiled' = Account(r.native)
    /\ UNCHANGED <<kind, fault, driver, framework, discovered>>

\* one of the accessors of a Ready Backend
Access(op, i, r) ==
    /\ last' = Called(op, <<>>, i, Success, Ok(r.val), r.native)
    /\ compiled' = Account(r.native)
    /\ UNCHANGED <<kind, fault, driver, framework, discovered, backends>>

BackendHardwares == \E i \in 1..Len(backends) :
    Access("Backend_hardwares", i, Backend_hardwares(backends[i]))

BackendFramework == \E i \in 1..Len(backends) :
    Access("Backend_framework", i, Backend_framework(backends[i]))

BackendDevice == \E i \in 1..Len(backends) :
    Access("Backend_device", i, Backend_device(backends[i]))

BackendBinary == \E i \in 1..Len(backends) :
    Access("Backend_binary", i, Backend_binary(backends[i]))

IBlasBinary == \E i \in 1..Len(backends) :
    /\ kind \in IBlasKinds
    /\ Access("IBlas_binary", i, IBlas_binary(backends[i]))

IBlasDevice == \E i \in 1..Len(backends) :
    /\ kind \in IBlasKinds
    /\ Access("IBlas_device", i, IBlas_device(backends[i]))

\* a Backend goes out of scope
Drop ==
    /\ \E i \in 1..Len(backends) :
         backends' = SubSeq(backends, 1, i - 1) \o SubSeq(backends, i + 1, Len(backends))
    /\ last' = NoLast
    /\ UNCHANGED <<kind, fault, driver, framework, discovered, compiled>>

Next ==
    \/ Hotplug
    \/ FrameworkNew
    \/ LoadHardwares
    \/ Hardwares
    \/ Binary
    \/ BackendNew
    \/ BackendHardwares
    \/ BackendFramework
    \/ BackendDevice
    \/ BackendBinary
    \/ IBlasBinary
    \/ IBlasDevice
    \/ Drop

Spec == Init /\ [][Next]_vars

\* the runs in which no construction succeeds, over every native status
BackendNewErr == BackendNew /\ ~last'.res.ok

NextErr ==
    \/ Hotplug
    \/ FrameworkNew
    \/ LoadHardwares
    \/ BackendNewErr

SpecErr == InitErr /\ [][NextErr]_vars

(***************************** properties **********************************)
\* the calls into the native driver among the calls of a trace
NativeCalls(native) ==
    Range(native) \cap {"enumerate_hardware", "create_device", "compile_binary"}

\* a non-empty subset of what the Framework discovered
Contained(subset) == subset # <<>> /\ Range(subset) \subseteq Range(discovered)

Constructed == last.op = "Backend_new"

C3_FailureUnchanged ==
    (Constructed /\ Contained(last.sub)) =>
        /\ last.res.ok <=> last.status = Success
        /\ Count(last.native, "new_device") = 1
        /\ ~last.res.ok =>
             last.res.err = new_device(framework, last.sub, last.status).res.err

\* C3 as amended: the same, but on failure the error new_device returned comes
\* back wrapped once in the crate-wide Error::Framework, itself unchanged
\* inside the wrapper, and no Backend is added.
C3_FailureWrappedOnce ==
    (Constructed /\ Contained(last.sub)) =>
        /\ last.res.ok <=> last.status = Success
        /\ Count(last.native, "new_device") = 1
        /\ Count(last.native, "create_device") = 1
        /\ ~last.res.ok =>
             /\ last.res.err.tag = "Framework"
             /\ last.res.err.err = new_device(framework, last.sub, last.status).res.err
             /\ last.res.val = NoValue

C3_Witness ==
    /\ Constructed
    /\ Contained(last.sub)
    /\ ~last.res.ok
    /\ last.status.variant = "OutOfResources"
    /\ Len(backends) = 1

\* C4: when the native context creation fails with message m, the Display of
\* the error Backend::new returns is "<FrameworkName> error: " followed by m,
\* character for character.
C4_DisplayVerbatim ==
    (Constructed /\ ~last.res.ok /\ last.status # Success) =>
        Display_crate(last.res.err) = <<kind, " error: ">> \o fmt_display(last.status.msg)

\* C5: every Ready Backend holds a Device whose hardware subset is non-empty
\* and lies within what the Backend's own Framework discovered.
C5_DeviceWithinDiscovery ==
    \A i \in 1..Len(backends) :
        /\ backends[i].device.hardwares # <<>>
        /\ Range(backends[i].device.hardwares) \subseteq Range(discovered)
        /\ Range(backends[i].device.hardwares)
             \subseteq Range(backends[i].framework.hardwares)
        /\ backends[i].device.kind = backends[i].framework.kind

C5_Witness ==
    /\ Len(backends) = 2
    /\ backends[1].device.hardwares = <<"hw0", "hw1">>
    /\ backends[2].device.hardwares = <<"hw1">>
    /\ driver # discovered

\* C6: hardwares(), on the Framework or through a Backend, returns the list
\* cached by new() and issues no native enumeration, whenever it is called.
C6_CacheIdempotent ==
    (last.op \in {"hardwares", "Backend_hardwares"}) =>
        /\ last.res.val = discovered
        /\ Count(last.native, "enumerate_hardware") = 0

C6_Witness ==
    /\ last.op = "Backend_hardwares"
    /\ last.idx = 2
    /\ driver # discovered

\* C7: a construction from a contained non-empty subset succeeds exactly when
\* its own native call succeeds, whatever Backends exist already, and leaves
\* the Framework's hardwares() list and the existing Backends as they were.
C7_IndependentConstruction ==
    [][(last'.op = "Backend_new" /\ Contained(last'.sub)) =>
          /\ last'.res.ok <=> last'.status = Success
          /\ hardwares(framework').val = hardwares(framework).val
          /\ hardwares(framework').val = discovered
          /\ \A i \in 1..Len(backends) :
               i <= Len(backends') /\ backends'[i] = backends[i]]_vars

C7_Witness ==
    /\ Constructed
    /\ ~last.res.ok
    /\ last.sub = <<"hw1">>
    /\ Len(backends) = 1
    /\ backends[1].device.hardwares = <<"hw0">>

\* C8: binary() and device() of a Ready Backend issue no native call, leave
\* the Backend as it was, and return the same value on the next call.
Accessors == {"Backend_binary", "Backend_device", "IBlas_binary", "IBlas_device"}

C8_AccessorsPure ==
    [][(last'.op \in Accessors) =>
          /\ backends' = backends
          /\ framework' = framework
          /\ last'.native = <<>>
          /\ (last.op = last'.op /\ last.idx = last'.idx) => last'.res = last.res]_vars

C8_Witness ==
    /\ last.op = "IBlas_binary"
    /\ last.idx = 2
    /\ backends[2].device.hardwares = <<"hw0", "hw1">>

\* C9: a native status turned into the framework error and then into the
\* crate-wide error keeps its variant and message: the framework error wraps
\* the status itself, describes itself by the message verbatim and names the
\* status as its cause.
C9_ConversionLossless ==
    (last.op \in {"Backend_new", "load_hardwares"} /\ last.status # Success) =>
        LET fe == IF Constructed THEN last.res.err.err ELSE last.res.err
        IN  /\ ~last.res.ok
            /\ Constructed => last.res.err.tag = "Framework"
            /\ fe.tag = "OpenCL"
            /\ fe.err = last.status
            /\ description_framework(fe) = last.status.msg
            /\ cause_framework(fe) = last.status
            /\ cause_native(fe.err) = NoError

C9_Witness ==
    /\ Constructed
    /\ last.status = [variant |-> "MisalignedSubBufferOffset", msg |-> <<"\"", "\\">>]

====
